---- MODULE Spec2Model ----
(***************************************************************************)
(* A model of the IR builder of the ReShade FX parser                      *)
(* (reshadefx::parser, src/unnamed/part_000): the sections of spv_node     *)
(* instructions, the identifier counter, the identifier lookup table and   *)
(* the type lookup table, with one action per builder operation.           *)
(*                                                                         *)
(* Conventions.  C++ containers are 0-based and TLA+ sequences 1-based:    *)
(* the node at C++ position i of a section is element i + 1 of the model's *)
(* sequence, and spv_node::index keeps the C++ value.  spv::Op values are  *)
(* modelled by their names.  spv_node::location is left out: no builder    *)
(* operation reads it.                                                     *)
(***************************************************************************)
EXTENDS Integers, Sequences, FiniteSets, TLC

(***************************************************************************)
(* Bound of the model: the number of nodes of all sections together.       *)
(***************************************************************************)
MaxNodes == 3

\* Bound of the type specification: the number of struct declarations of a source.
MaxStructs == 1
MaxTokens == 3
MaxResources == 4
MaxBuffers == 3
MaxPending == 2

\* spv::Id _next_id = 100
FirstId == 100

\* spv::Op values used by the builder.
OpNop == "OpNop"
OpTypeVoid == "OpTypeVoid"
OpTypeBool == "OpTypeBool"
OpTypeInt == "OpTypeInt"
OpTypeFloat == "OpTypeFloat"
OpTypeVector == "OpTypeVector"
OpTypeMatrix == "OpTypeMatrix"
OpTypeImage == "OpTypeImage"
OpTypeSampler == "OpTypeSampler"
OpTypeSampledImage == "OpTypeSampledImage"
OpTypeArray == "OpTypeArray"
OpTypeRuntimeArray == "OpTypeRuntimeArray"
OpTypeStruct == "OpTypeStruct"
OpTypePointer == "OpTypePointer"
OpTypeFunction == "OpTypeFunction"
OpConstant == "OpConstant"
OpConstantNull == "OpConstantNull"
OpConvertFToU == "OpConvertFToU"
OpConvertFToS == "OpConvertFToS"
OpConvertSToF == "OpConvertSToF"
OpConvertUToF == "OpConvertUToF"
OpLabel == "OpLabel"

\* Operand words that are enumerators of spirv.hpp, by name.
StorageClassFunction == "StorageClassFunction"
Dim2D == "Dim2D"
ImageFormatRgba8 == "ImageFormatRgba8"

\* qualifier_const
qualifier_const == 256

\* The spv_section members of the parser.
SectionNames ==
  {"_entries", "_strings", "_annotations", "_variables", "_function_section", "_temporary"}

VARIABLES
  sections,       \* section name -> its instructions (a sequence of spv_node)
  _id_lookup,     \* sequence of <<section name, index>>
  _type_lookup,   \* sequence of <<type_info, id>>
  _next_id,       \* the identifier counter
  returned,       \* history: one record per add_node call, in call order
  last,           \* history: the most recent builder call, its arguments and result
  source,         \* input: the element type the declarations of the source use
  aborted,        \* an assert of add_cast_node failed in a build that keeps asserts
  stream,         \* input: the tokens of the source text, in order
  _lexer,         \* the token-stream cursor: the tokens lexed so far (0: no lexer)
  _lexer_backup,  \* the saved cursor (0: nothing saved)
  _token,         \* the current token
  _token_next,    \* the lookahead token
  _token_backup,  \* the saved tokens
  expected,       \* history: the tokens ahead when backup was last called
  _orig,          \* swapchain_impl: there is an original swap chain (_orig != nullptr)
  _backbuffers,   \* swapchain_impl: the back buffer list (nullptr: an empty slot)
  _swap_index,    \* swapchain_impl: the swap index of a swap chain without _orig
  _is_initialized,\* runtime: is_initialized()
  trace,          \* history: what the most recent call did, in order
  pending,        \* history: the init_swapchain events no destroy_swapchain matched
  unpaired,       \* history: a destroy_swapchain event had no init_swapchain to match
  lifetime,       \* "none", "alive", "destroyed" or "crashed"
  cycle,          \* input: the resources an application presents round-robin
  turn            \* input: the position in cycle of the next source

lexer_vars ==
  <<stream, _lexer, _lexer_backup, _token, _token_next, _token_backup, expected>>

swapchain_vars ==
  <<_orig, _backbuffers, _swap_index, _is_initialized, trace, pending, unpaired,
    lifetime, cycle, turn>>

vars ==
  <<sections, _id_lookup, _type_lookup, _next_id, returned, last, source, aborted,
    lexer_vars, swapchain_vars>>

(***************************************************************************)
(* The builder state the operations thread through.                        *)
(***************************************************************************)
Builder ==
  [sections |-> sections, id_lookup |-> _id_lookup, type_lookup |-> _type_lookup,
   next_id |-> _next_id, returned |-> returned]

\* struct spv_node, default constructed
spv_node ==
  [op |-> OpNop, result |-> 0, result_type |-> 0, operands |-> <<>>, index |-> -1]

\* Mutant of spv_node::add: the operand is put in front.
add_in_front(node, operand) ==
  [node EXCEPT !.operands = <<operand>> \o @]

\* spv_node::add
add(node, operand) ==
  [node EXCEPT !.operands = Append(@, operand)]

\* type_info { base, size, rows, cols, is_signed }: the remaining members take
\* their default member initializers.
type_info(base, size, rows, cols, is_signed) ==
  [base |-> base, size |-> size, rows |-> rows, cols |-> cols, is_signed |-> is_signed,
   is_pointer |-> FALSE, qualifiers |-> 0, array_length |-> 0, definition |-> 0,
   array_lenghth_expression |-> 0]

is_array(t) == t.array_length # 0
is_vector(t) == t.rows > 1 /\ t.cols = 1
is_matrix(t) == t.rows >= 1 /\ t.cols > 1
is_boolean(t) == t.base = OpTypeBool
is_integral(t) == t.base = OpTypeInt
is_floating_point(t) == t.base = OpTypeFloat
is_numeric(t) == is_boolean(t) \/ is_integral(t) \/ is_floating_point(t)
is_scalar(t) == ~is_array(t) /\ ~is_matrix(t) /\ ~is_vector(t) /\ is_numeric(t)

\* Mutant of operator==: the qualifiers are compared as well.
TypeEq_with_qualifiers(lhs, rhs) ==
  /\ lhs.base = rhs.base
  /\ lhs.size = rhs.size
  /\ lhs.rows = rhs.rows
  /\ lhs.cols = rhs.cols
  /\ lhs.is_signed = rhs.is_signed
  /\ lhs.array_length = rhs.array_length
  /\ lhs.definition = rhs.definition
  /\ lhs.is_pointer = rhs.is_pointer
  /\ lhs.qualifiers = rhs.qualifiers

\* Mutant of operator==: only the sign of the array length is compared.
TypeEq_array_kind(lhs, rhs) ==
  /\ lhs.base = rhs.base
  /\ lhs.size = rhs.size
  /\ lhs.rows = rhs.rows
  /\ lhs.cols = rhs.cols
  /\ lhs.is_signed = rhs.is_signed
  /\ (lhs.array_length > 0) = (rhs.array_length > 0)
  /\ (lhs.array_length < 0) = (rhs.array_length < 0)
  /\ lhs.definition = rhs.definition
  /\ lhs.is_pointer = rhs.is_pointer

\* operator==(const type_info &, const type_info &)
TypeEq(lhs, rhs) ==
  /\ lhs.base = rhs.base
  /\ lhs.size = rhs.size
  /\ lhs.rows = rhs.rows
  /\ lhs.cols = rhs.cols
  /\ lhs.is_signed = rhs.is_signed
  /\ lhs.array_length = rhs.array_length
  /\ lhs.definition = rhs.definition
  /\ lhs.is_pointer = rhs.is_pointer

\* parser::add_node_without_result: the new node is the back of the section.
add_node_without_result(b, section, op) ==
  LET instructions == Append(b.sections[section], spv_node)
      size == Len(instructions)
  IN  [b EXCEPT !.sections[section] =
         [instructions EXCEPT ![size] = [@ EXCEPT !.op = op, !.index = size - 1]]]

\* Mutant of parser::add_node: the result type is not stored.
add_node_result_untyped(b1, section, op, type) ==
  LET pos == Len(b1.sections[section])
      instruction == b1.sections[section][pos]
      id == b1.next_id
  IN  [st |-> [b1 EXCEPT !.sections[section][pos].result = id,
                         !.next_id = id + 1,
                         !.id_lookup = Append(@, <<section, instruction.index>>),
                         !.returned = Append(@, [id |-> id, section |-> section,
                                                 op |-> op, type |-> type])],
       id |-> id]

\* Mutant of parser::add_node: the counter is not advanced.
add_node_result_same_id(b1, section, op, type) ==
  LET pos == Len(b1.sections[section])
      instruction == b1.sections[section][pos]
      id == b1.next_id
  IN  [st |-> [b1 EXCEPT !.sections[section][pos].result = id,
                         !.sections[section][pos].result_type = type,
                         !.id_lookup = Append(@, <<section, instruction.index>>),
                         !.returned = Append(@, [id |-> id, section |-> section,
                                                 op |-> op, type |-> type])],
       id |-> id]

\* parser::add_node after its call of add_node_without_result: `instruction` is
\* the back of the section in b1, the state that call leaves.
add_node_result(b1, section, op, type) ==
  LET pos == Len(b1.sections[section])
      instruction == b1.sections[section][pos]
      id == b1.next_id
  IN  [st |-> [b1 EXCEPT !.sections[section][pos].result = id,
                         !.sections[section][pos].result_type = type,
                         !.next_id = id + 1,
                         !.id_lookup = Append(@, <<section, instruction.index>>),
                         !.returned = Append(@, [id |-> id, section |-> section,
                                                 op |-> op, type |-> type])],
       id |-> id]

\* parser::add_node
add_node(b, section, op, type) ==
  add_node_result(add_node_without_result(b, section, op), section, op, type)

\* parser::lookup_id: the node an identifier refers to.
lookup_id(b, id) ==
  LET ref == b.id_lookup[(id - FirstId) + 1]
  IN  b.sections[ref[1]][ref[2] + 1]

\* lookup_id(id).add(operand): lookup_id returns a reference, so the operand is
\* appended to the node in its section.
lookup_id_add(b, id, operand) ==
  LET ref == b.id_lookup[(id - FirstId) + 1]
  IN  [b EXCEPT !.sections[ref[1]][ref[2] + 1] = add(@, operand)]

\* lookup_id(r.id).add(operand) for the node r that add_node returned.
with_operand(r, operand) ==
  [st |-> lookup_id_add(r.st, r.id, operand), id |-> r.id]

\* The first entry of _type_lookup equal to info (std::find_if), 0 when there is none.
find_type(b, info) ==
  LET hits == {i \in 1..Len(b.type_lookup) : TypeEq(b.type_lookup[i][1], info)}
  IN  IF hits = {} THEN 0 ELSE CHOOSE i \in hits : \A k \in hits : i <= k

\* _type_lookup.push_back({ info, type }); return type;
push_type(t, info) ==
  [st |-> [t.st EXCEPT !.type_lookup = Append(@, <<info, t.id>>)], id |-> t.id]

\* type = add_node(_variables, {}, op) followed by lookup_id(type).add(...) for
\* each of the operands, in order.
RECURSIVE add_type_node(_, _, _)
add_type_node(b, op, operands) ==
  IF operands = <<>>
  THEN add_node(b, "_variables", op, 0)
  ELSE with_operand(add_type_node(b, op, SubSeq(operands, 1, Len(operands) - 1)),
                    operands[Len(operands)])

\* The node of an array, pointer, vector or matrix type, its element type e
\* converted: the operands are those before the element, the element, those after.
composite_type(e, op, before, after) ==
  add_type_node(e.st, op, before \o <<e.id>> \o after)

\* parser::convert_type(const type_info &)
RECURSIVE convert_type(_, _)
convert_type(b, info) ==
  IF find_type(b, info) # 0 THEN [st |-> b, id |-> b.type_lookup[find_type(b, info)][2]]
  ELSE IF is_array(info) THEN
    IF info.array_length > 0
    THEN push_type(composite_type(
                     convert_type(b, type_info(info.base, info.size, info.rows, info.cols,
                                               info.is_signed)),
                     OpTypeArray, <<>>, <<info.array_lenghth_expression>>), info)
    ELSE push_type(composite_type(
                     convert_type(b, type_info(info.base, info.size, info.rows, info.cols,
                                               info.is_signed)),
                     OpTypeRuntimeArray, <<>>, <<>>), info)
  ELSE IF info.is_pointer THEN
    push_type(composite_type(
                convert_type(b, type_info(info.base, info.size, info.rows, info.cols,
                                          info.is_signed)),
                OpTypePointer, <<StorageClassFunction>>, <<>>), info)
  ELSE IF is_vector(info) THEN
    push_type(composite_type(
                convert_type(b, type_info(info.base, info.size, 1, 1, info.is_signed)),
                OpTypeVector, <<>>, <<info.rows>>), info)
  ELSE IF is_matrix(info) THEN
    push_type(composite_type(
                convert_type(b, type_info(info.base, info.size, info.rows, 1,
                                          info.is_signed)),
                OpTypeMatrix, <<>>, <<info.cols>>), info)
  ELSE
    CASE info.base = OpTypeVoid ->
           push_type(add_type_node(b, OpTypeVoid, <<>>), info)
      [] info.base = OpTypeBool ->
           push_type(add_type_node(b, OpTypeBool, <<>>), info)
      [] info.base = OpTypeFloat ->
           push_type(add_type_node(b, OpTypeFloat, <<info.size>>), info)
      [] info.base = OpTypeInt ->
           push_type(add_type_node(b, OpTypeInt,
                                   <<info.size, IF info.is_signed THEN 1 ELSE 0>>), info)
      [] info.base = OpTypeStruct ->
           push_type([st |-> b, id |-> info.definition], info)
      [] info.base = OpTypeImage ->
           push_type(add_type_node(b, OpTypeImage,
                       <<info.definition, Dim2D, 0, 0, 0, 1, ImageFormatRgba8>>), info)
      [] info.base = OpTypeSampledImage ->
           push_type(add_type_node(b, OpTypeSampledImage, <<info.definition>>), info)
      [] OTHER -> [st |-> b, id |-> 0]

\* param_types.push_back(convert_type(param)), r holding the builder state and
\* the param_types so far.
push_param_type(r, p) ==
  [st |-> p.st, ids |-> Append(r.ids, p.id)]

\* One iteration of the loop over parameter_list.
convert_parameter(r, param) ==
  push_param_type(r, convert_type(r.st, param))

\* parser::convert_type(const function_info &): the loop over parameter_list.
RECURSIVE convert_parameters(_, _)
convert_parameters(b, parameter_list) ==
  IF parameter_list = <<>> THEN [st |-> b, ids |-> <<>>]
  ELSE convert_parameter(
         convert_parameters(b, SubSeq(parameter_list, 1, Len(parameter_list) - 1)),
         parameter_list[Len(parameter_list)])

\* Mutant of the OpTypeFunction node: the return type is added last.
function_type_node_return_last(return_type, param_types) ==
  add_type_node(param_types.st, OpTypeFunction, param_types.ids \o <<return_type.id>>)

\* The OpTypeFunction node: the return type, then the parameter types.
function_type_node(return_type, param_types) ==
  add_type_node(param_types.st, OpTypeFunction, <<return_type.id>> \o param_types.ids)

\* parser::convert_type(const function_info &), return_type converted.
convert_signature(return_type, info) ==
  function_type_node(return_type, convert_parameters(return_type.st, info.parameter_list))

\* parser::convert_type(const function_info &)
convert_function_type(b, info) ==
  convert_signature(convert_type(b, info.return_type), info)

\* Mutant of parser::convert_constant: a zero is a literal constant too.
constant_node_literal(t, value) ==
  with_operand(add_node(t.st, "_variables", OpConstant, t.id), value)

\* parser::convert_constant, its argument convert_type(type) evaluated to t
\* before add_node is entered.
constant_node(t, value) ==
  IF value = 0
  THEN add_node(t.st, "_variables", OpConstantNull, t.id)
  ELSE with_operand(add_node(t.st, "_variables", OpConstant, t.id), value)

\* Mutant of convert_constant: constants are interned by their type, as types
\* are; a constant of the type already in _variables is returned again.
convert_constant_interned(b, type, value) ==
  LET t    == convert_type(b, type)
      hits == {i \in 1..Len(t.st.sections["_variables"]) :
                 /\ t.st.sections["_variables"][i].op \in {OpConstant, OpConstantNull}
                 /\ t.st.sections["_variables"][i].result_type = t.id}
  IN  IF hits = {}
      THEN constant_node(t, value)
      ELSE [st |-> t.st,
            id |-> t.st.sections["_variables"][CHOOSE i \in hits : TRUE].result]

\* parser::convert_constant
convert_constant(b, type, value) ==
  constant_node(convert_type(b, type), value)

\* The node of add_cast_node, convert_type(to) evaluated to t.
cast_node(t, section, op, input) ==
  with_operand(add_node(t.st, section, op, t.id), input)

\* parser::add_cast_node, in a build without asserts (NDEBUG) or with the
\* assert of the case taken holding.
add_cast_node(b, section, from, to, input) ==
  CASE to.base = OpTypeInt ->
         cast_node(convert_type(b, to), section,
                   IF to.is_signed THEN OpConvertFToS ELSE OpConvertFToU, input)
    [] to.base = OpTypeFloat ->
         cast_node(convert_type(b, to), section,
                   IF from.is_signed THEN OpConvertSToF ELSE OpConvertUToF, input)
    [] OTHER -> [st |-> b, id |-> input]

\* The assert of the case add_cast_node takes for `to`.
cast_assert(from, to) ==
  CASE to.base = OpTypeInt -> is_floating_point(from)
    [] to.base = OpTypeFloat -> is_integral(from)
    [] OTHER -> TRUE

\* The number of nodes of all sections.
Nodes(b) ==
  Len(b.sections["_entries"]) + Len(b.sections["_strings"])
  + Len(b.sections["_annotations"]) + Len(b.sections["_variables"])
  + Len(b.sections["_function_section"]) + Len(b.sections["_temporary"])

\* The step to the builder state b, within the bound of the model.
Commit(b) ==
  /\ Nodes(b) <= MaxNodes
  /\ sections' = b.sections
  /\ _id_lookup' = b.id_lookup
  /\ _type_lookup' = b.type_lookup
  /\ _next_id' = b.next_id
  /\ returned' = b.returned

(***************************************************************************)
(* The inputs of the operations.                                           *)
(***************************************************************************)
InputSections == {"_variables", "_function_section"}

\* The identifiers of the struct declarations made so far.
StructIds(b) ==
  {b.returned[k].id : k \in {i \in 1..Len(b.returned) : b.returned[i].op = OpTypeStruct}}

\* type_info values by their parts.
scalar(base, is_signed) == type_info(base, 32, 1, 1, is_signed)
shaped(base, rows, cols) == type_info(base, 32, rows, cols, FALSE)
defined(base, definition) == [type_info(base, 0, 0, 0, FALSE) EXCEPT !.definition = definition]
array_of(t, n) == [t EXCEPT !.array_length = n]
pointer_to(t) == [t EXCEPT !.is_pointer = TRUE]
qualified(t, q) == [t EXCEPT !.qualifiers = q]

void_t == type_info(OpTypeVoid, 0, 0, 0, FALSE)
bool_t == scalar(OpTypeBool, FALSE)
int_t == scalar(OpTypeInt, TRUE)
uint_t == scalar(OpTypeInt, FALSE)
float_t == scalar(OpTypeFloat, FALSE)
sampler_t == scalar(OpTypeSampler, FALSE)

\* The element types a source may use: every base kind the builder knows, one
\* it does not (OpTypeSampler), and the vector and matrix shapes.
ElementTypes ==
  {void_t, bool_t, int_t, float_t, sampler_t,
   shaped(OpTypeFloat, 3, 1), shaped(OpTypeFloat, 3, 3), shaped(OpTypeSampler, 3, 1),
   defined(OpTypeStruct, 0), defined(OpTypeImage, 0), defined(OpTypeSampledImage, 0)}

\* The element type with the definition the source gave it: a struct type names
\* one of the struct declarations made so far.
Elements(b, e) ==
  IF e.base = OpTypeStruct
  THEN {[e EXCEPT !.definition = d] : d \in StructIds(b)}
  ELSE {e}

\* The types declared from the element type e: qualified, arrays of the length
\* kinds (one with a length expression), a pointer.
TypeInfos(b, e) ==
  UNION {{t, qualified(t, qualifier_const),
          array_of(t, 2), [array_of(t, 2) EXCEPT !.array_lenghth_expression = FirstId],
          array_of(t, -1), array_of(t, -2),
          pointer_to(t)} : t \in Elements(b, e)}

(***************************************************************************)
(* The operations.                                                         *)
(***************************************************************************)
AddNode(Sections, Ops, Ids) ==
  /\ ~aborted
  /\ \E section \in Sections, op \in Ops, type \in Ids :
       LET r == add_node(Builder, section, op, type)
       IN  /\ Commit(r.st)
           /\ last' = [call |-> "add_node", section |-> section, op |-> op,
                       type |-> type, result |-> r.id]
  /\ UNCHANGED <<source, aborted, lexer_vars, swapchain_vars>>

AddNodeWithoutResult ==
  /\ ~aborted
  /\ \E section \in InputSections, op \in {OpLabel} :
       /\ Commit(add_node_without_result(Builder, section, op))
       /\ last' = [call |-> "add_node_without_result", section |-> section, op |-> op]
  /\ UNCHANGED <<source, aborted, lexer_vars, swapchain_vars>>

\* lookup_id(id).add(operand), as the parser does for a node it created earlier.
AddOperand ==
  /\ ~aborted
  /\ \E k \in 1..Len(returned), operand \in {FirstId} :
       LET id == returned[k].id
       IN  /\ Nodes(Builder) + Len(lookup_id(Builder, id).operands) < MaxNodes
           /\ Commit(lookup_id_add(Builder, id, operand))
           /\ last' = [call |-> "add", id |-> id, operand |-> operand]
  /\ UNCHANGED <<source, aborted, lexer_vars, swapchain_vars>>

ConvertType(Types) ==
  /\ ~aborted
  /\ \E info \in Types :
       LET r == convert_type(Builder, info)
       IN  /\ Commit(r.st)
           /\ last' = [call |-> "convert_type", info |-> info, result |-> r.id]
  /\ UNCHANGED <<source, aborted, lexer_vars, swapchain_vars>>

ConvertFunctionType(ReturnTypes, ParameterLists) ==
  /\ ~aborted
  /\ \E return_type \in ReturnTypes, parameter_list \in ParameterLists :
       LET info == [return_type |-> return_type, parameter_list |-> parameter_list]
           r == convert_function_type(Builder, info)
       IN  /\ Commit(r.st)
           /\ last' = [call |-> "convert_function_type", info |-> info, result |-> r.id]
  /\ UNCHANGED <<source, aborted, lexer_vars, swapchain_vars>>

ConvertConstant(Types, Values) ==
  /\ ~aborted
  /\ \E type \in Types, value \in Values :
       LET r == convert_constant(Builder, type, value)
       IN  /\ Commit(r.st)
           /\ last' = [call |-> "convert_constant", type |-> type, value |-> value,
                       result |-> r.id]
  /\ UNCHANGED <<source, aborted, lexer_vars, swapchain_vars>>

\* add_cast_node returning: the assert of the case taken holds, or the build
\* is one without asserts (NDEBUG).
AddCastNode(FromTypes, ToTypes) ==
  /\ ~aborted
  /\ \E from \in FromTypes, to \in ToTypes, input \in {FirstId} :
       LET r == add_cast_node(Builder, "_function_section", from, to, input)
       IN  /\ Commit(r.st)
           /\ last' = [call |-> "add_cast_node", from |-> from, to |-> to,
                       input |-> input, result |-> r.id]
  /\ UNCHANGED <<source, aborted, lexer_vars, swapchain_vars>>

\* add_cast_node in a build with asserts, the assert of the case taken failing:
\* the process is aborted before anything is added.
AddCastNodeAbort(FromTypes, ToTypes) ==
  /\ ~aborted
  /\ \E from \in FromTypes, to \in ToTypes, input \in {FirstId} :
       /\ ~cast_assert(from, to)
       /\ last' = [call |-> "add_cast_node", from |-> from, to |-> to,
                   input |-> input, result |-> 0]
  /\ aborted' = TRUE
  /\ UNCHANGED <<sections, _id_lookup, _type_lookup, _next_id, returned, source,
                 lexer_vars, swapchain_vars>>

(***************************************************************************)
(* The state after construction, for a source of element type e.           *)
(***************************************************************************)
(***************************************************************************)
(* The lexical position of the parser: the token source, consume and peek, *)
(* backup and restore.                                                     *)
(***************************************************************************)
TokenIds == {"identifier", "("}
end_of_stream == "end_of_stream"

\* The token streams of the sources.
RECURSIVE StreamsOfLength(_)
StreamsOfLength(n) ==
  IF n = 0 THEN {<<>>}
  ELSE {Append(str, id) : str \in StreamsOfLength(n - 1), id \in TokenIds}

Streams == UNION {StreamsOfLength(n) : n \in 0..MaxTokens}

\* The lexical position: the cursor of the token source, the current and the
\* lookahead token, and the saved position.
Lexical ==
  [lexer |-> _lexer, lexer_backup |-> _lexer_backup, token |-> _token,
   token_next |-> _token_next, token_backup |-> _token_backup]

\* The token source advancing: the token at the cursor with its location and
\* the cursor behind it; at the end of the stream, end_of_stream again and again.
lex(cursor) ==
  IF cursor <= Len(stream)
  THEN [token |-> [id |-> stream[cursor], location |-> cursor], lexer |-> cursor + 1]
  ELSE [token |-> [id |-> end_of_stream, location |-> Len(stream) + 1],
        lexer |-> cursor]

\* consume: the lookahead token becomes the current one and the token source
\* supplies the next lookahead.
consume(p) ==
  [p EXCEPT !.token = p.token_next,
            !.token_next = lex(p.lexer).token,
            !.lexer = lex(p.lexer).lexer]

\* peek: the kind of the lookahead token.
peek(p, tokid) == p.token_next.id = tokid

\* backup: the single-slot snapshot of the current token, the lookahead token
\* and the cursor.
backup(p) ==
  [p EXCEPT !.lexer_backup = p.lexer,
            !.token_backup = [token |-> p.token, token_next |-> p.token_next]]

\* Mutant of restore: the cursor is reset, the tokens are not.
restore_cursor_only(p) ==
  [p EXCEPT !.lexer = p.lexer_backup]

\* restore: the snapshot becomes the lexical position again.
restore(p) ==
  [p EXCEPT !.lexer = p.lexer_backup,
            !.token = p.token_backup.token,
            !.token_next = p.token_backup.token_next]

\* The tokens the next k consume calls make current, in order.
RECURSIVE Ahead(_, _)
Ahead(p, k) ==
  IF k = 0 THEN <<>> ELSE <<consume(p).token>> \o Ahead(consume(p), k - 1)

\* The lexical position p becomes the parser's.
Position(p) ==
  /\ _lexer' = p.lexer
  /\ _lexer_backup' = p.lexer_backup
  /\ _token' = p.token
  /\ _token_next' = p.token_next
  /\ _token_backup' = p.token_backup

builder_vars ==
  <<sections, _id_lookup, _type_lookup, _next_id, returned, source, aborted>>

Backup ==
  /\ Position(backup(Lexical))
  /\ expected' = Ahead(Lexical, MaxTokens + 2)
  /\ last' = [call |-> "backup"]
  /\ UNCHANGED <<builder_vars, stream, swapchain_vars>>

Consume ==
  /\ Position(consume(Lexical))
  /\ last' = [call |-> "consume"]
  /\ UNCHANGED <<builder_vars, stream, expected, swapchain_vars>>

\* restore is called with a position saved.
Restore ==
  /\ _lexer_backup # 0
  /\ Position(restore(Lexical))
  /\ last' = [call |-> "restore", from |-> _lexer]
  /\ UNCHANGED <<builder_vars, stream, expected, swapchain_vars>>

(***************************************************************************)
(* d3d12 swapchain_impl: the back buffer list, the swap index, the runtime *)
(* it initializes and resets, and the add-on events it invokes.            *)
(***************************************************************************)
nullptr == 0
DefaultBackBuffers == 3
Resources == 1..MaxResources

\* The swap chain the operations thread through.
Swapchain ==
  [orig |-> _orig, backbuffers |-> _backbuffers, swap_index |-> _swap_index,
   is_initialized |-> _is_initialized, trace |-> trace, pending |-> pending,
   unpaired |-> unpaired]

\* swapchain_impl::get_back_buffer_count
get_back_buffer_count(s) == Len(s.backbuffers)

\* swapchain_impl::get_current_back_buffer_index, orig_index being the answer
\* of the original swap chain.
get_current_back_buffer_index(s, orig_index) ==
  IF s.orig THEN orig_index ELSE s.swap_index

\* What a call does is recorded in its order.
record(s, what) == [s EXCEPT !.trace = Append(@, what)]

\* invoke_addon_event<addon_event::init_swapchain / destroy_swapchain>(this)
invoke_addon_event(s, ev) ==
  IF ev = "init_swapchain"
  THEN [record(s, ev) EXCEPT !.pending = @ + 1]
  ELSE IF s.pending > 0
       THEN [record(s, ev) EXCEPT !.pending = @ - 1]
       ELSE [record(s, ev) EXCEPT !.unpaired = TRUE]

\* runtime::on_init(hwnd), succeeding or not
runtime_on_init(s, ok) ==
  [st |-> [record(s, "runtime::on_init") EXCEPT !.is_initialized = IF ok THEN TRUE ELSE @],
   result |-> ok]

\* runtime::on_reset()
runtime_on_reset(s) ==
  [record(s, "runtime::on_reset") EXCEPT !.is_initialized = FALSE]

\* std::vector::resize(n): the first n elements kept, null com_ptrs added.
resize(bb, n) ==
  [i \in 1..n |-> IF i <= Len(bb) THEN bb[i] ELSE nullptr]

\* The loop of on_init over the buffers of the original swap chain: GetBuffer
\* of buffer i fails when in.fail_at = i (buffers counted from 1); the buffer
\* of index i - 1 is the resource i.
RECURSIVE get_buffers(_, _, _)
get_buffers(bb, i, in) ==
  IF i > in.count THEN [ok |-> TRUE, bb |-> bb]
  ELSE IF in.fail_at = i THEN [ok |-> FALSE, bb |-> bb]
  ELSE get_buffers([bb EXCEPT ![i] = i], i + 1, in)

\* swapchain_impl::on_init from the back buffers on: the init_swapchain event
\* and runtime::on_init.
on_init_buffers(s, g, in) ==
  IF ~g.ok
  THEN [st |-> [s EXCEPT !.backbuffers = g.bb], result |-> FALSE]
  ELSE runtime_on_init(
         invoke_addon_event([s EXCEPT !.backbuffers = g.bb], "init_swapchain"),
         in.rt_ok)

\* swapchain_impl::on_init, the answers of the original swap chain being in:
\* GetDesc succeeds (desc), SampleDesc.Count (samples), BufferCount (count),
\* the GetBuffer that fails (fail_at, 0: none), runtime::on_init succeeds (rt_ok).
on_init(s, in) ==
  IF ~in.desc THEN [st |-> s, result |-> FALSE]
  ELSE IF in.samples > 1 THEN [st |-> record(s, "warning"), result |-> FALSE]
  ELSE on_init_buffers(s, get_buffers(resize(s.backbuffers, in.count), 1, in), in)

\* Mutant of on_reset: the back buffer list is not cleared.
on_reset_keeps_buffers(s) ==
  IF s.backbuffers = <<>> THEN s
  ELSE record(invoke_addon_event(runtime_on_reset(s), "destroy_swapchain"),
              "wait_idle")

\* swapchain_impl::on_reset
on_reset(s) ==
  IF s.backbuffers = <<>> THEN s
  ELSE [record(record(invoke_addon_event(runtime_on_reset(s), "destroy_swapchain"),
                      "wait_idle"), "clear")
          EXCEPT !.backbuffers = <<>>]

\* swapchain_impl::on_present()
on_present_runtime(s) ==
  IF ~s.is_initialized THEN s ELSE record(s, "runtime::on_present")

\* std::find(_backbuffers.begin(), _backbuffers.end(), source): the first
\* position of source, 0 for end().
find(bb, resource) ==
  IF \E i \in 1..Len(bb) : bb[i] = resource
  THEN CHOOSE i \in 1..Len(bb) : bb[i] = resource /\ \A k \in 1..(i - 1) : bb[k] # resource
  ELSE 0

\* std::vector::erase(it)
erase(bb, it) ==
  [i \in 1..(Len(bb) - 1) |-> IF i < it THEN bb[i] ELSE bb[i + 1]]

\* Mutant of the back buffer update: the source always goes into the slot of
\* the swap index, the list is never reduced.
update_without_erase(bb, index, resource) ==
  [bb EXCEPT ![index + 1] = resource]

\* Reduce number of back buffers if less are used than predicted: the source
\* is erased where it is found, and set at the swap index otherwise.
update_back_buffers(bb, index, resource) ==
  IF find(bb, resource) # 0
  THEN erase(bb, find(bb, resource))
  ELSE [bb EXCEPT ![index + 1] = resource]

\* Mutant of the initialization check: the slot just set is checked.
any_back_buffer_set(bb) ==
  \E i \in 1..Len(bb) : bb[i] # nullptr

\* Do not initialize before all back buffers have been set: the check of the
\* last to be set, the one at index 0.
all_back_buffers_set(bb) ==
  bb[1] # nullptr

\* on_present(source, hwnd) from the initialization check on.
present_init(s, rt_ok) ==
  IF all_back_buffers_set(s.backbuffers)
  THEN IF rt_ok
       THEN [st |-> on_present_runtime(
                      runtime_on_init(invoke_addon_event(s, "init_swapchain"), rt_ok).st),
             result |-> TRUE]
       ELSE [st |-> runtime_on_init(invoke_addon_event(s, "init_swapchain"), rt_ok).st,
             result |-> FALSE]
  ELSE [st |-> on_present_runtime(s), result |-> TRUE]

\* on_present(source, hwnd) with a source that is not the back buffer at the
\* swap index: the runtime is reset and the list updated.
present_update(s, resource, rt_ok) ==
  present_init(
    [(IF s.backbuffers[1] # nullptr
      THEN invoke_addon_event(runtime_on_reset(s), "destroy_swapchain")
      ELSE runtime_on_reset(s))
       EXCEPT !.backbuffers = update_back_buffers(s.backbuffers, s.swap_index, resource)],
    rt_ok)

\* on_present(source, hwnd) after the swap index was advanced.
present_at(s, resource, rt_ok) ==
  IF s.backbuffers[s.swap_index + 1] # resource
  THEN present_update(s, resource, rt_ok)
  ELSE [st |-> on_present_runtime(s), result |-> TRUE]

\* swapchain_impl::on_present(ID3D12Resource *source, HWND hwnd), the back
\* buffer list not empty. The swap index is a UINT that never exceeds the
\* length of the list, so that the addition does not wrap.
on_present(s, resource, rt_ok) ==
  present_at([s EXCEPT !.swap_index = (@ + 1) % Len(s.backbuffers)],
             resource, rt_ok)

\* The answers of an original swap chain to on_init, one for each way through
\* on_init: GetDesc failing; a multisampled swap chain; GetBuffer failing at
\* one of the buffers; every buffer obtained and runtime::on_init succeeding
\* or not. A swap chain of D3D12 has two buffers or more.
InitInputs ==
  {[desc |-> FALSE, samples |-> 1, count |-> 2, fail_at |-> 0, rt_ok |-> FALSE]}
  \cup {[desc |-> TRUE, samples |-> 4, count |-> n, fail_at |-> 0, rt_ok |-> TRUE] :
          n \in 2..MaxBuffers}
  \cup {in \in [desc : {TRUE}, samples : {1}, count : 2..MaxBuffers,
                fail_at : 1..MaxBuffers, rt_ok : {FALSE}] : in.fail_at <= in.count}
  \cup [desc : {TRUE}, samples : {1}, count : 2..MaxBuffers, fail_at : {0},
        rt_ok : BOOLEAN]

NoInput == [desc |-> FALSE, samples |-> 1, count |-> 1, fail_at |-> 0, rt_ok |-> FALSE]

\* Mutant of the constructor: the back buffer list is not resized.
construct_without_slots(orig, in) ==
  [st |-> [orig |-> orig, backbuffers |-> <<>>, swap_index |-> 0,
           is_initialized |-> FALSE, trace |-> <<>>, pending |-> 0,
           unpaired |-> FALSE],
   result |-> FALSE]

\* swapchain_impl::swapchain_impl
construct(orig, in) ==
  IF orig
  THEN on_init([orig |-> orig, backbuffers |-> resize(<<>>, DefaultBackBuffers),
                swap_index |-> 0, is_initialized |-> FALSE, trace |-> <<>>,
                pending |-> 0, unpaired |-> FALSE], in)
  ELSE [st |-> [orig |-> orig, backbuffers |-> resize(<<>>, DefaultBackBuffers),
                swap_index |-> 0, is_initialized |-> FALSE, trace |-> <<>>,
                pending |-> 0, unpaired |-> FALSE],
        result |-> FALSE]

\* The swap chain s becomes the state; the trace is that of the call.
CommitSwapchain(s) ==
  /\ _orig' = s.orig
  /\ _backbuffers' = s.backbuffers
  /\ _swap_index' = s.swap_index
  /\ _is_initialized' = s.is_initialized
  /\ trace' = s.trace
  /\ pending' = s.pending
  /\ unpaired' = s.unpaired

\* The swap chain as a call finds it.
Called == [Swapchain EXCEPT !.trace = <<>>]

OnInit ==
  /\ lifetime = "alive"
  /\ _orig
  /\ pending < MaxPending
  /\ \E in \in InitInputs :
       /\ CommitSwapchain(on_init(Called, in).st)
       /\ last' = [call |-> "on_init", in |-> in, result |-> on_init(Called, in).result]
  /\ UNCHANGED <<builder_vars, lexer_vars, lifetime, cycle, turn>>

OnReset ==
  /\ lifetime = "alive"
  /\ CommitSwapchain(on_reset(Called))
  /\ last' = [call |-> "on_reset"]
  /\ UNCHANGED <<builder_vars, lexer_vars, lifetime, cycle, turn>>

OnPresent(Sources, Results) ==
  /\ lifetime = "alive"
  /\ _backbuffers # <<>>
  /\ \E src \in Sources, rt_ok \in Results :
       /\ CommitSwapchain(on_present(Called, src, rt_ok).st)
       /\ last' = [call |-> "on_present", source |-> src,
                   result |-> on_present(Called, src, rt_ok).result]
  /\ UNCHANGED <<builder_vars, lexer_vars, lifetime, cycle, turn>>

\* on_present(source, hwnd) with an empty back buffer list: the swap index is
\* advanced modulo zero, an integer division by zero.
OnPresentEmpty ==
  /\ lifetime = "alive"
  /\ _backbuffers = <<>>
  /\ lifetime' = "crashed"
  /\ last' = [call |-> "on_present", source |-> 1, result |-> FALSE]
  /\ UNCHANGED <<builder_vars, lexer_vars, _orig, _backbuffers, _swap_index,
                 _is_initialized, trace, pending, unpaired, cycle, turn>>

\* swapchain_impl::~swapchain_impl
Destruct ==
  /\ lifetime = "alive"
  /\ CommitSwapchain(on_reset(Called))
  /\ lifetime' = "destroyed"
  /\ last' = [call |-> "~swapchain_impl"]
  /\ UNCHANGED <<builder_vars, lexer_vars, cycle, turn>>

\* The application presents the resources of cycle one after the other, again
\* and again; runtime::on_init succeeds.
PresentRoundRobin ==
  /\ lifetime = "alive"
  /\ _backbuffers # <<>>
  /\ CommitSwapchain(on_present(Called, cycle[turn], TRUE).st)
  /\ last' = [call |-> "on_present", source |-> cycle[turn],
              result |-> on_present(Called, cycle[turn], TRUE).result]
  /\ turn' = (turn % Len(cycle)) + 1
  /\ UNCHANGED <<builder_vars, lexer_vars, lifetime, cycle>>

\* No swap chain: the state of the specifications of the parser.
NoSwapchain ==
  /\ _orig = FALSE
  /\ _backbuffers = <<>>
  /\ _swap_index = 0
  /\ _is_initialized = FALSE
  /\ trace = <<>>
  /\ pending = 0
  /\ unpaired = FALSE
  /\ lifetime = "none"
  /\ cycle = <<>>
  /\ turn = 0

\* The parser before run: no lexer, default tokens.
NoLexer ==
  /\ stream = <<>>
  /\ _lexer = 0
  /\ _lexer_backup = 0
  /\ _token = [id |-> "none", location |-> 0]
  /\ _token_next = [id |-> "none", location |-> 0]
  /\ _token_backup = [token |-> [id |-> "none", location |-> 0],
                      token_next |-> [id |-> "none", location |-> 0]]
  /\ expected = <<>>

ConstructedBuilder(e) ==
  /\ sections = [s \in SectionNames |-> <<>>]
  /\ _id_lookup = <<>>
  /\ _type_lookup = <<>>
  /\ _next_id = FirstId
  /\ returned = <<>>
  /\ last = [call |-> "none"]
  /\ source = e
  /\ aborted = FALSE

Constructed(e) ==
  /\ ConstructedBuilder(e)
  /\ NoLexer
  /\ NoSwapchain

(***************************************************************************)
(* The general specification: every builder operation, interleaved.        *)
(***************************************************************************)
Init == Constructed(float_t)

Next ==
  \/ AddNode(InputSections, {OpTypeStruct}, {0})
  \/ AddNodeWithoutResult
  \/ AddOperand
  \/ ConvertType({float_t, array_of(int_t, 2)}
                 \cup {pointer_to(t) : t \in Elements(Builder, defined(OpTypeStruct, 0))})
  \/ ConvertFunctionType({void_t}, {<<float_t>>})
  \/ ConvertConstant({float_t}, {0, 1})
  \/ AddCastNode({int_t}, {uint_t, float_t})
  \/ AddCastNodeAbort({int_t}, {uint_t, float_t})

Spec == Init /\ [][Next]_vars

(***************************************************************************)
(* The type specification: convert_type on the types of a source, whatever *)
(* its element type, and the struct declarations of a source of structs.   *)
(***************************************************************************)
InitTypes == \E e \in ElementTypes : Constructed(e)

DeclareStruct ==
  /\ source.base = OpTypeStruct
  /\ Cardinality(StructIds(Builder)) < MaxStructs
  /\ AddNode({"_variables"}, {OpTypeStruct}, {0})

NextTypes ==
  \/ DeclareStruct
  \/ ConvertType(TypeInfos(Builder, source))

SpecTypes == InitTypes /\ [][NextTypes]_vars

(***************************************************************************)
(* The function type specification: convert_type on function signatures.   *)
(***************************************************************************)
NextFunctions ==
  \/ ConvertType({void_t, float_t, int_t})
  \/ ConvertFunctionType({void_t, float_t, int_t},
                         {<<>>, <<float_t>>, <<sampler_t>>, <<float_t, float_t>>,
                          <<float_t, int_t>>, <<int_t, float_t>>})

SpecFunctions == Init /\ [][NextFunctions]_vars

(***************************************************************************)
(* The constant specification: convert_constant.                           *)
(***************************************************************************)
NextConstants ==
  \/ ConvertType({float_t})
  \/ ConvertConstant({float_t, qualified(float_t, qualifier_const), int_t, sampler_t},
                     {0, 1, 2})

SpecConstants == Init /\ [][NextConstants]_vars

\* The implicit conversions of expression parsing: add_cast_node between the
\* scalar numeric types, in a build with asserts and in one without.
CastTypes == {bool_t, int_t, uint_t, float_t}

NextCasts ==
  \/ ConvertType({int_t, float_t})
  \/ AddCastNode(CastTypes, CastTypes)
  \/ AddCastNodeAbort(CastTypes, CastTypes)

SpecCasts == Init /\ [][NextCasts]_vars

\* The lexical position while a source is parsed: run has created the token
\* source of the text and consumed once, so that the lookahead token is the
\* first token of the stream.
InitLexer ==
  /\ ConstructedBuilder(float_t)
  /\ stream \in Streams
  /\ _lexer = IF stream = <<>> THEN 1 ELSE 2
  /\ _lexer_backup = 0
  /\ _token = [id |-> "none", location |-> 0]
  /\ _token_next = [id |-> IF stream = <<>> THEN end_of_stream ELSE stream[1],
                    location |-> 1]
  /\ _token_backup = [token |-> [id |-> "none", location |-> 0],
                      token_next |-> [id |-> "none", location |-> 0]]
  /\ expected = <<>>
  /\ NoSwapchain

NextLexer == Backup \/ Consume \/ Restore

SpecLexer == InitLexer /\ [][NextLexer]_vars

\* The swap chain after construction, with an original swap chain answering
\* on_init with in, or without one.
ConstructedSwapchain(orig, in) ==
  /\ ConstructedBuilder(float_t)
  /\ NoLexer
  /\ _orig = construct(orig, in).st.orig
  /\ _backbuffers = construct(orig, in).st.backbuffers
  /\ _swap_index = construct(orig, in).st.swap_index
  /\ _is_initialized = construct(orig, in).st.is_initialized
  /\ trace = construct(orig, in).st.trace
  /\ pending = construct(orig, in).st.pending
  /\ unpaired = construct(orig, in).st.unpaired
  /\ lifetime = "alive"

\* The lifetime of a swap chain: construction, on_init, on_reset, on_present
\* and destruction.
InitSwapchain ==
  /\ \/ ConstructedSwapchain(FALSE, NoInput)
     \/ \E in \in InitInputs : ConstructedSwapchain(TRUE, in)
  /\ cycle = <<>>
  /\ turn = 0

NextSwapchain ==
  \/ OnInit
  \/ OnReset
  \/ OnPresent(1..2, BOOLEAN)
  \/ OnPresentEmpty
  \/ Destruct

SpecSwapchain == InitSwapchain /\ [][NextSwapchain]_vars

\* A swap chain without an original swap chain (d3d12on7), presented to with
\* arbitrary sources.
InitPresent ==
  /\ ConstructedSwapchain(FALSE, NoInput)
  /\ cycle = <<>>
  /\ turn = 0

NextPresent == OnPresent(Resources, BOOLEAN)

SpecPresent == InitPresent /\ [][NextPresent]_vars

\* The sequences of k distinct resources.
RECURSIVE Cycles(_)
Cycles(k) ==
  IF k = 0 THEN {<<>>}
  ELSE UNION {{Append(c, r) : r \in Resources \ {c[i] : i \in 1..(k - 1)}} :
                c \in Cycles(k - 1)}

\* A swap chain without an original swap chain, presented to round-robin; the
\* application keeps presenting.
InitRoundRobin ==
  /\ ConstructedSwapchain(FALSE, NoInput)
  /\ cycle \in UNION {Cycles(k) : k \in 1..DefaultBackBuffers}
  /\ turn = 1

NextRoundRobin == PresentRoundRobin

SpecRoundRobin ==
  InitRoundRobin /\ [][NextRoundRobin]_vars /\ WF_vars(PresentRoundRobin)

(***************************************************************************)
(* Properties.                                                             *)
(***************************************************************************)

\* Whether id is an identifier lookup_id can resolve in b.
Resolvable(b, id) ==
  /\ id - FirstId + 1 \in 1..Len(b.id_lookup)
  /\ b.id_lookup[(id - FirstId) + 1][1] \in SectionNames
  /\ b.id_lookup[(id - FirstId) + 1][2] + 1
       \in 1..Len(b.sections[b.id_lookup[(id - FirstId) + 1][1]])

\* Type equality as the data model states it: base kind, element width, row and
\* column counts, signedness, array length, struct definition and pointer flag.
EqualTypes(a, c) ==
  /\ a.base = c.base /\ a.size = c.size /\ a.rows = c.rows /\ a.cols = c.cols
  /\ a.is_signed = c.is_signed /\ a.array_length = c.array_length
  /\ a.definition = c.definition /\ a.is_pointer = c.is_pointer

\* C1: every identifier add_node has returned resolves through lookup_id to a
\* node of the section it was added to, whose result is that identifier and
\* whose op and result_type are the ones passed to that add_node call.
C1_ReturnedIdsResolve ==
  \A k \in 1..Len(returned) :
    /\ Resolvable(Builder, returned[k].id)
    /\ _id_lookup[(returned[k].id - FirstId) + 1][1] = returned[k].section
    /\ lookup_id(Builder, returned[k].id).result = returned[k].id
    /\ lookup_id(Builder, returned[k].id).op = returned[k].op
    /\ lookup_id(Builder, returned[k].id).result_type = returned[k].type

\* Witness of C1: identifiers were returned for nodes of two sections, one of
\* them at a position that is not its rank among the identifiers, one with a
\* result type.
C1_Witness ==
  /\ \E j, k \in 1..Len(returned) : returned[j].section # returned[k].section
  /\ \E k \in 1..Len(returned) : _id_lookup[k][2] # k - 1
  /\ \E k \in 1..Len(returned) : returned[k].type # 0

\* C2: the identifiers add_node returns are at least 100 and each is strictly
\* greater than every identifier returned earlier, whatever the sections: no
\* identifier is handed out twice.
C2_IdsIncrease ==
  \A k \in 1..Len(returned) :
    /\ returned[k].id >= 100
    /\ \A j \in 1..(k - 1) : returned[j].id < returned[k].id

\* Witness of C2: three identifiers were returned, for nodes of two sections.
C2_Witness ==
  /\ Len(returned) >= 3
  /\ \E j, k \in 1..Len(returned) : returned[j].section # returned[k].section

\* C3: of two successive convert_type calls with types equal under type
\* equality, the second returns the identifier of the first and appends no
\* node to any section and no entry to the type lookup table.
C3_Interning ==
  [][(/\ last.call = "convert_type"
      /\ last'.call = "convert_type"
      /\ EqualTypes(last.info, last'.info))
     => (/\ last'.result = last.result
         /\ sections' = sections
         /\ _type_lookup' = _type_lookup)]_vars

\* Witness of C3: convert_type returned, for a type, the identifier recorded
\* for an equal type of other qualifiers or another array length expression.
C3_Witness ==
  /\ last.call = "convert_type"
  /\ last.result # 0
  /\ \E i \in 1..Len(_type_lookup) :
       /\ EqualTypes(_type_lookup[i][1], last.info)
       /\ _type_lookup[i][1] # last.info
       /\ _type_lookup[i][2] = last.result
  /\ \A i, k \in 1..Len(_type_lookup) :
       EqualTypes(_type_lookup[i][1], _type_lookup[k][1]) => i = k

\* Whether two types differ in array length and agree on every other field.
DifferInArrayLength(a, c) ==
  /\ a.array_length # c.array_length
  /\ [a EXCEPT !.array_length = 0] = [c EXCEPT !.array_length = 0]

\* C4: of two successive convert_type calls with types that differ in array
\* length only, the second returns an identifier different from the first's.
C4_ArrayLengthsDiffer ==
  [][(/\ last.call = "convert_type"
      /\ last'.call = "convert_type"
      /\ DifferInArrayLength(last.info, last'.info))
     => last'.result # last.result]_vars

\* Witness of C4: convert_type was called for a runtime array of one negative
\* length with the type of the other negative length and the element type
\* recorded, under three different identifiers.
C4_Witness ==
  /\ last.call = "convert_type"
  /\ last.info.array_length = -2
  /\ \E i, k \in 1..Len(_type_lookup) :
       /\ _type_lookup[i][1] = [last.info EXCEPT !.array_length = -1]
       /\ _type_lookup[k][1] = [last.info EXCEPT !.array_length = 0]
       /\ _type_lookup[i][2] # last.result
       /\ _type_lookup[k][2] # last.result
       /\ _type_lookup[k][2] # _type_lookup[i][2]

\* The element type of an array, pointer, vector or matrix type: the type with
\* the array length cleared, the pointer flag cleared, or the shape reduced.
ElementType(t) ==
  IF is_array(t) THEN [t EXCEPT !.array_length = 0, !.array_lenghth_expression = 0]
  ELSE IF t.is_pointer THEN [t EXCEPT !.is_pointer = FALSE]
  ELSE IF is_vector(t) THEN [t EXCEPT !.rows = 1]
  ELSE [t EXCEPT !.cols = 1]

\* The operand of a composite type node that names its element type.
ElementOperand(node) ==
  IF node.op = OpTypePointer THEN node.operands[2] ELSE node.operands[1]

\* C5: the node convert_type returns for an array, pointer, vector or matrix
\* type references, as its element, the identifier convert_type returns for the
\* element type, for every base kind.
C5_ElementOfComposite ==
  (/\ last.call = "convert_type"
   /\ is_array(last.info) \/ last.info.is_pointer \/ is_vector(last.info)
        \/ is_matrix(last.info))
  => /\ Resolvable(Builder, last.result)
     /\ ElementOperand(lookup_id(Builder, last.result))
          = convert_type(Builder, ElementType(last.info)).id

\* The base kinds convert_type knows.
KnownBases ==
  {OpTypeVoid, OpTypeBool, OpTypeInt, OpTypeFloat, OpTypeStruct, OpTypeImage,
   OpTypeSampledImage}

\* C6: convert_type returns 0 for every type of an unknown base kind, whatever
\* its shape, array length and pointer flag.
C6_UnknownBaseIsInvalid ==
  (last.call = "convert_type" /\ last.info.base \notin KnownBases) => last.result = 0

\* The number of nodes of op `op` in a sequence of nodes.
CountOp(instructions, op) ==
  Cardinality({i \in 1..Len(instructions) : instructions[i].op = op})

\* The identifiers convert_type returns in b for the types of a list.
TypeIds(b, types) ==
  [i \in 1..Len(types) |-> convert_type(b, types[i]).id]

\* C7: convert_type for a function signature appends exactly one OpTypeFunction
\* node; its operands are the identifier convert_type returns for the return
\* type, then those it returns for the parameter types in declaration order,
\* 1 + the number of parameters in all, each of them interned.
C7_FunctionType ==
  [][last'.call = "convert_function_type"
     => /\ CountOp(sections'["_variables"], OpTypeFunction)
             = CountOp(sections["_variables"], OpTypeFunction) + 1
        /\ \A s \in SectionNames \ {"_variables"} : sections'[s] = sections[s]
        /\ Resolvable(Builder', last'.result)
        /\ lookup_id(Builder', last'.result).op = OpTypeFunction
        /\ lookup_id(Builder', last'.result).result = last'.result
        /\ lookup_id(Builder', last'.result).operands
             = TypeIds(Builder', <<last'.info.return_type>> \o last'.info.parameter_list)
        /\ Len(lookup_id(Builder', last'.result).operands)
             = 1 + Len(last'.info.parameter_list)
        /\ \A t \in {last'.info.return_type}
                    \cup {last'.info.parameter_list[i] :
                            i \in 1..Len(last'.info.parameter_list)} :
             convert_type(Builder', t).st = Builder']_vars

\* Witness of C7: a signature of two parameters of different types was
\* converted, the return type being the type of the first.
C7_Witness ==
  /\ last.call = "convert_function_type"
  /\ Len(last.info.parameter_list) = 2
  /\ last.info.parameter_list[1] # last.info.parameter_list[2]
  /\ Resolvable(Builder, last.result)
  /\ Len(lookup_id(Builder, last.result).operands) = 3
  /\ lookup_id(Builder, last.result).operands[2] # lookup_id(Builder, last.result).operands[3]
  /\ lookup_id(Builder, last.result).operands[1] # lookup_id(Builder, last.result).operands[3]

\* C8: the node convert_constant returns is a null constant without operands
\* for the value 0 and a literal constant whose one operand is the value
\* otherwise; its result type is the identifier convert_type returns for the type.
C8_ConstantNode ==
  last.call = "convert_constant"
  => /\ Resolvable(Builder, last.result)
     /\ lookup_id(Builder, last.result).result = last.result
     /\ lookup_id(Builder, last.result).result_type = convert_type(Builder, last.type).id
     /\ last.value = 0
          => /\ lookup_id(Builder, last.result).op = OpConstantNull
             /\ lookup_id(Builder, last.result).operands = <<>>
     /\ last.value # 0
          => /\ lookup_id(Builder, last.result).op = OpConstant
             /\ lookup_id(Builder, last.result).operands = <<last.value>>

\* Witness of C8: a literal constant of a materialized type was converted after
\* a null constant.
C8_Witness ==
  /\ last.call = "convert_constant"
  /\ last.value # 0
  /\ Resolvable(Builder, last.result)
  /\ lookup_id(Builder, last.result).result_type >= FirstId
  /\ CountOp(sections["_variables"], OpConstantNull) > 0

\* C9: of two successive convert_constant calls with equal types and different
\* values, the second returns another identifier than the first, each names its
\* own node, both nodes have the same result type, and the second call appends
\* the constant node only: the type is not materialized again.
C9_ConstantsNotInterned ==
  [][(/\ last.call = "convert_constant"
      /\ last'.call = "convert_constant"
      /\ EqualTypes(last.type, last'.type)
      /\ last.value # last'.value)
     => (/\ last'.result # last.result
         /\ Resolvable(Builder', last.result)
         /\ Resolvable(Builder', last'.result)
         /\ lookup_id(Builder', last.result).result = last.result
         /\ lookup_id(Builder', last'.result).result = last'.result
         /\ lookup_id(Builder', last'.result).result_type
              = lookup_id(Builder', last.result).result_type
         /\ Nodes(Builder') = Nodes(Builder) + 1
         /\ _type_lookup' = _type_lookup)]_vars

\* Witness of C9: two constants of different values and the same materialized
\* type are in the section, the type materialized once.
C9_Witness ==
  /\ last.call = "convert_constant"
  /\ \E i, k \in 1..Len(sections["_variables"]) :
       /\ i # k
       /\ sections["_variables"][i].op \in {OpConstant, OpConstantNull}
       /\ sections["_variables"][k].op = OpConstant
       /\ sections["_variables"][i].operands # sections["_variables"][k].operands
       /\ sections["_variables"][i].result_type = sections["_variables"][k].result_type
       /\ sections["_variables"][i].result_type >= FirstId
       /\ sections["_variables"][k].result = last.result
  /\ CountOp(sections["_variables"], OpTypeFloat) + CountOp(sections["_variables"], OpTypeInt) = 1

\* Every node is at the position its index names.
IndexIsPosition ==
  \A s \in SectionNames : \A i \in 1..Len(sections[s]) : sections[s][i].index = i - 1

\* A step leaves every section at least as long, and every node present its
\* op, result, result_type, index and operands, but for operands added at the end.
AppendOnly ==
  \A s \in SectionNames :
    /\ Len(sections'[s]) >= Len(sections[s])
    /\ \A i \in 1..Len(sections[s]) :
         /\ sections'[s][i].op = sections[s][i].op
         /\ sections'[s][i].result = sections[s][i].result
         /\ sections'[s][i].result_type = sections[s][i].result_type
         /\ sections'[s][i].index = sections[s][i].index
         /\ Len(sections'[s][i].operands) >= Len(sections[s][i].operands)
         /\ SubSeq(sections'[s][i].operands, 1, Len(sections[s][i].operands))
              = sections[s][i].operands

\* C10: sections are append-only: every builder operation leaves each section
\* at least as long and op, result, result_type and position of every node
\* present unchanged, a node changing only by operands added at the end of its
\* operand list; and every node's index is its position.
C10_AppendOnly ==
  []IndexIsPosition /\ [][AppendOnly]_vars

\* Witness of C10: an operand was added to a node that had another one.
C10_Witness ==
  /\ last.call = "add"
  /\ Resolvable(Builder, last.id)
  /\ Len(lookup_id(Builder, last.id).operands) >= 2
  /\ lookup_id(Builder, last.id).operands[1] # last.operand

\* The ops of the conversion nodes.
ConversionOps == {OpConvertFToU, OpConvertFToS, OpConvertSToF, OpConvertUToF}

\* C11: whenever the source and destination types of add_cast_node are numeric
\* (bool, integral or floating-point), of the same shape and different, the
\* call returns without a failed assertion, the identifier it returns is that
\* of a conversion node it appended, whose one operand is the input value and
\* whose result type is convert_type(destination).
C11_ImplicitCast ==
  (/\ last.call = "add_cast_node"
   /\ is_numeric(last.from) /\ is_numeric(last.to)
   /\ last.from.rows = last.to.rows /\ last.from.cols = last.to.cols
   /\ ~EqualTypes(last.from, last.to))
  => /\ ~aborted
     /\ last.result # last.input
     /\ Resolvable(Builder, last.result)
     /\ lookup_id(Builder, last.result).op \in ConversionOps
     /\ lookup_id(Builder, last.result).operands = <<last.input>>
     /\ lookup_id(Builder, last.result).result_type # 0
     /\ lookup_id(Builder, last.result).result_type
          = convert_type(Builder, last.to).id
\* C12: restore leaves the lexical position such that the next peek and the
\* tokens the following consume calls produce are the ones that were ahead when
\* backup was called, however many tokens were consumed in between.
C12_BackupRestoreRoundTrip ==
  [][last'.call = "restore"
     => /\ \A tokid \in TokenIds \cup {end_of_stream} :
             peek(Lexical', tokid) <=> (expected[1].id = tokid)
        /\ Ahead(Lexical', MaxTokens + 2) = expected]_vars

\* Witness of C12: restore was called two tokens behind the saved position,
\* and a token of the stream is the lookahead again.
C12_Witness ==
  /\ last.call = "restore"
  /\ last.from >= _lexer + 2
  /\ _token_next.id # end_of_stream
  /\ _token # _token_next
\* What the most recent call did.
Did(what) == \E i \in 1..Len(trace) : trace[i] = what

\* C13: when on_init meets a swap chain with a sample count greater than 1,
\* the warning is recorded and on_init continues instead of reporting failure:
\* with every buffer obtained and runtime::on_init succeeding, the
\* init_swapchain event is invoked and on_init returns true.
C13_WarningIsNotFatal ==
  (/\ last.call = "on_init"
   /\ last.in.desc /\ last.in.samples > 1
   /\ last.in.fail_at = 0 /\ last.in.rt_ok)
  => /\ Did("warning")
     /\ Did("init_swapchain")
     /\ last.result = TRUE

\* C14: on a swap chain without an original swap chain, an on_present call
\* that invoked the init_swapchain event or runtime::on_init did so with every
\* slot of the back buffer list set.
C14_InitAfterAllSet ==
  (/\ last.call = "on_present"
   /\ Did("runtime::on_init") \/ Did("init_swapchain"))
  => \A i \in 1..Len(_backbuffers) : _backbuffers[i] # nullptr

\* Witness of C14: on_present initialized the runtime on a list it had reduced
\* to two back buffers.
C14_Witness ==
  /\ last.call = "on_present"
  /\ Did("runtime::on_init")
  /\ Len(_backbuffers) = 2

\* The list is the resources of the cycle and nothing else, the runtime is
\* initialized, and the most recent on_present did not reset it.
Settled ==
  /\ Len(_backbuffers) = Len(cycle)
  /\ {_backbuffers[i] : i \in 1..Len(_backbuffers)} = {cycle[i] : i \in 1..Len(cycle)}
  /\ _is_initialized
  /\ ~Did("runtime::on_reset")
  /\ ~Did("runtime::on_init")

\* C15: when the sources of successive on_present calls cycle through k
\* distinct resources, 1 <= k <= 3, and runtime::on_init succeeds, eventually
\* the back buffer list holds exactly those k resources, the runtime is
\* initialized, and from then on no on_present resets it or changes the list.
C15_ReducedToUsed ==
  <>[]Settled /\ <>[][_backbuffers' = _backbuffers]_vars

\* Witness of C15: the list has settled on fewer resources than the three
\* predicted.
C15_Witness ==
  /\ Settled
  /\ Len(cycle) < DefaultBackBuffers
  /\ last.call = "on_present"

\* C16: on_reset (the destructor's too) does nothing when the back buffer
\* list is empty; otherwise it resets the runtime, invokes destroy_swapchain,
\* waits for the graphics queue and then clears the list, in this order; an
\* on_reset directly after an on_reset has no effect.
C16_ResetReleasesOnce ==
  [][/\ last'.call \in {"on_reset", "~swapchain_impl"}
        => IF _backbuffers = <<>>
           THEN /\ trace' = <<>>
                /\ UNCHANGED <<_backbuffers, _swap_index, _is_initialized,
                               pending, unpaired>>
           ELSE /\ trace' = <<"runtime::on_reset", "destroy_swapchain",
                              "wait_idle", "clear">>
                /\ _backbuffers' = <<>>
                /\ ~_is_initialized'
     /\ (last.call = "on_reset" /\ last'.call = "on_reset")
        => /\ trace' = <<>>
           /\ UNCHANGED <<_backbuffers, _swap_index, _is_initialized,
                          pending, unpaired>>]_vars

\* Witness of C16: on_reset was called on the list an earlier on_reset had
\* cleared, on a swap chain with an original swap chain.
C16_Witness ==
  /\ last.call = "on_reset"
  /\ trace = <<>>
  /\ _backbuffers = <<>>
  /\ _orig

\* C17: on a swap chain without an original swap chain, after every
\* on_present(source, hwnd) the current back buffer index is an index into the
\* back buffer list.
C17_IndexInRange ==
  last.call = "on_present"
  => get_current_back_buffer_index(Swapchain, 0) < get_back_buffer_count(Swapchain)

\* C18: on a swap chain without an original swap chain, presented to with
\* arbitrary sources from its construction on, the back buffer count is never
\* below 1, and a call reduces the list only when it holds 2 entries or more.
C18_NeverEmpty ==
  [](get_back_buffer_count(Swapchain) >= 1)
  /\ [][Len(_backbuffers') < Len(_backbuffers)
          => Len(_backbuffers) >= 2 /\ Len(_backbuffers') = Len(_backbuffers) - 1]_vars

\* Witness of C18: the list was reduced to a single back buffer.
C18_Witness ==
  /\ last.call = "on_present"
  /\ get_back_buffer_count(Swapchain) = 1
  /\ _backbuffers[1] # nullptr

\* C19: every destroy_swapchain event is preceded by an init_swapchain event
\* that no earlier destroy_swapchain has matched.
C19_EventsPaired ==
  ~unpaired
====
